---- MODULE Spec2Model ----
(***************************************************************************)
(* A model of the Mojo analytics pipeline: the clean step                  *)
(* (process_data.py), the dashboard's date filter and pages                *)
(* (dashboard.py) and the ingest step (ingest_data.py with Constants.py).  *)
(*                                                                         *)
(* Text is a sequence of one-character strings, so that str.split("."),    *)
(* the ".0" suffix of a float and the digits of a phone number are         *)
(* computed, not assumed.                                                  *)
(***************************************************************************)
EXTENDS Integers, Sequences, FiniteSets, TLC

VARIABLES
    rawDirExists,   \* process_data.main: os.path.exists(raw_data_dir)
    cleanWritable,  \* whether os.makedirs/to_csv on the clean directory succeed
    raw,            \* report -> the raw .xlsx file in raw_data_dir
    clean,          \* report -> the clean .csv file in clean_data_dir
    result,         \* report -> what the cleaner returned in this run of main
    pc,             \* position of process_data.main
    runs,           \* how many times main has been started
    first,          \* result and clean store at the end of the previous run
    csv,            \* dashboard: table name -> the CSV file in DATABASE_DIR
    dfs,            \* dashboard: table name -> the frame load_data gave
    from_date,      \* dashboard: the "From" date input
    to_date,        \* dashboard: the "To" date input
    filtered,       \* dashboard: table name -> what filter_df returned
    fpc,            \* position of the dashboard script
    page,           \* dashboard: st.session_state.page
    ipc,            \* position of ingest_data
    idx,            \* which of the five reports ingest_data is at
    auth,           \* the response to the sign-in request
    today,          \* datetime.now() of the run, as an index of DateNames
    requests,       \* the report requests issued so far, in order
    resp,           \* the response to the last report request
    pkg,            \* what the last fetch_data returned
    store,          \* report -> the raw file save_data wrote
    rawWritable,    \* whether the raw directory can be created and written
    now,            \* datetime.now(): the day the clock shows
    dirs            \* the directories that exist under DATASETS_DIR

cleanVars == <<rawDirExists, cleanWritable, raw, clean, result, pc, runs, first>>

dashVars == <<csv, dfs, from_date, to_date, filtered, fpc, page>>

ingestVars == <<ipc, idx, auth, today, requests, resp, pkg, store, rawWritable, now, dirs>>

vars == <<cleanVars, dashVars, ingestVars>>

----------------------------------------------------------------------------
(* Bounds of the model *)

MainRows == 1      \* data rows per raw sheet when all four reports vary together
PhoneRows == 2     \* data rows of the clients and pets sheets that vary the phone cell
SvcRows == 2       \* data rows of the services sheets that vary the numeric cells
RevRows == 3       \* rows of the revenue sheets, footer included
FltRows == 2       \* rows of the dashboard's revenue table
TicksPerDay == 2   \* instants told apart within one calendar day
MaxRuns == 2       \* runs of process_data.main on the same raw store
MaxMidnights == 1  \* midnights that pass during one run of ingest_data

----------------------------------------------------------------------------
(* Spreadsheet cells as pandas.read_excel yields them, and frame values *)

Digits == {"0", "1", "2", "3", "4", "5", "6", "7", "8", "9"}

Blank == [k |-> "blank", v |-> <<>>]
Num(ds) == [k |-> "num", v |-> ds]
Txt(s) == [k |-> "text", v |-> s]
Dt(s) == [k |-> "date", v |-> s]

NaN == [k |-> "nan", v |-> <<>>]
Str(s) == [k |-> "str", v |-> s]
Number(ds) == [k |-> "number", v |-> ds]
Timestamp(s) == [k |-> "timestamp", v |-> s]

\* A cell of a column that the cleaner leaves as read.
FrameValue(c) ==
    CASE c.k = "blank" -> NaN
      [] c.k = "num" -> Number(c.v)
      [] c.k = "text" -> Str(c.v)
      [] OTHER -> Timestamp(c.v)

Min(S) == CHOOSE x \in S : \A y \in S : x <= y

IsDigitString(s) == Len(s) > 0 /\ \A i \in 1..Len(s) : s[i] \in Digits

Reports == {"clients", "pets", "services", "revenue"}

NoFile == [present |-> FALSE, rows |-> <<>>]
File(rows) == [present |-> TRUE, rows |-> rows]

NotRun == [st |-> "notrun", rows |-> <<>>]
None == [st |-> "none", rows |-> <<>>]
Table(rows) == [st |-> "table", rows |-> rows]

----------------------------------------------------------------------------
(* pandas operations used by the cleaners *)

\* pd.read_excel(path, skiprows=.., header=.., usecols=..) followed by the
\* assignment of the column names.  file.rows are the sheet's rows after
\* the skipped ones, projected on usecols.  A missing file raises
\* FileNotFoundError; a sheet with no row left gives a frame without
\* columns, on which the assignment of the names raises ValueError.
read_excel(file, header) ==
    IF ~file.present THEN [ok |-> FALSE, exc |-> "FileNotFoundError", rows |-> <<>>]
    ELSE IF file.rows = <<>> THEN [ok |-> FALSE, exc |-> "ValueError", rows |-> <<>>]
    ELSE [ok |-> TRUE, exc |-> "", rows |-> IF header THEN Tail(file.rows) ELSE file.rows]

\* dtype read_excel infers for a column: object when a cell holds text,
\* float64 when all are numbers or blank and one is blank, int64 otherwise.
ColDtype(rows, col) ==
    IF \E i \in 1..Len(rows) : rows[i][col].k \in {"text", "date"} THEN "object"
    ELSE IF \E i \in 1..Len(rows) : rows[i][col].k = "blank" THEN "float64"
    ELSE "int64"

\* Series.astype(str) on one element: a float prints with ".0", a missing
\* value prints as "nan" (pandas 2, the release line of the code's date).
AsTypeStr(c, dtype) ==
    CASE c.k = "blank" -> <<"n", "a", "n">>
      [] c.k = "num" -> IF dtype = "float64" THEN c.v \o <<".", "0">> ELSE c.v
      [] OTHER -> c.v

\* .str.split(".").str[0]
SplitDotFirst(s) ==
    LET dots == {i \in 1..Len(s) : s[i] = "."}
    IN IF dots = {} THEN s ELSE SubSeq(s, 1, Min(dots) - 1)

\* df[col].astype(str).str.split(".").str[0]
PhoneValue(c, dtype) == Str(SplitDotFirst(AsTypeStr(c, dtype)))

\* Texts that pd.to_datetime parses.
DateTexts == {<<"2", "0", "2", "5", "-", "1", "2", "-", "0", "1">>}

\* pd.to_datetime(column) without errors=: raises on a text it cannot parse.
DateParses(c) == c.k \in {"blank", "date"} \/ (c.k = "text" /\ c.v \in DateTexts)

to_datetime(c) == IF c.k = "blank" THEN NaN ELSE Timestamp(c.v)

\* pd.to_numeric(column, errors='coerce') on one element.
to_numeric(c) ==
    CASE c.k = "num" -> Number(c.v)
      [] c.k = "text" /\ IsDigitString(c.v) -> Number(c.v)
      [] OTHER -> NaN

\* DataFrame.dropna(subset=cols)
dropna(rows, cols) ==
    LET Keep(r) == \A c \in cols : r[c].k # "nan"
    IN SelectSeq(rows, Keep)

\* One field of a CSV line written by DataFrame.to_csv: a missing value is
\* the empty field.
CsvField(x) == IF x.k = "nan" THEN <<>> ELSE x.v

CsvRows(rows) ==
    [i \in 1..Len(rows) |-> [c \in DOMAIN rows[i] |-> CsvField(rows[i][c])]]

\* DataFrame.to_csv(path, index=False): the file is opened for writing, so
\* what it held is replaced.
\* Mutant: the file is opened for appending.
to_csv_append(old, rows) == File(old.rows \o CsvRows(rows))

to_csv(old, rows) == File(CsvRows(rows))

\* Mutant: the handler lets the exception out.
FailedRaises(old) == [ret |-> [st |-> "raised", rows |-> <<>>], file |-> old]

\* What a cleaner gives back: the returned value and the clean file.
\* "except Exception: return None".
Failed(old) == [ret |-> None, file |-> old]

Raised(old) == [ret |-> [st |-> "raised", rows |-> <<>>], file |-> old]

\* Mutant: the handler of the missing file lets the exception out.
ExceptFileNotFoundReraises(old) == Raised(old)

\* "except FileNotFoundError: return None".
ExceptFileNotFound(old) == Failed(old)

\* Mutant: the table is returned without the file being written.
SavedWithoutWrite(old, rows, writable) == [ret |-> Table(rows), file |-> old]

\* os.makedirs(clean_data_dir), to_csv and the return of the table; a
\* failure of either is caught by "except Exception".
Saved(old, rows, writable) ==
    IF writable THEN [ret |-> Table(rows), file |-> to_csv(old, rows)]
    ELSE Failed(old)

----------------------------------------------------------------------------
(* The four cleaners of process_data.py.  Each takes the raw file, the    *)
(* clean file as it is before the call and whether the clean directory    *)
(* can be written, and gives the returned value and the clean file.       *)

clean_clients_data(file, old, writable) ==
    LET rd == read_excel(file, TRUE)
        dt == ColDtype(rd.rows, "phone")
        df == [i \in 1..Len(rd.rows) |->
                 [name |-> FrameValue(rd.rows[i].name),
                  id |-> FrameValue(rd.rows[i].id),
                  phone |-> PhoneValue(rd.rows[i].phone, dt),
                  creation_date |-> to_datetime(rd.rows[i].creation_date),
                  status |-> FrameValue(rd.rows[i].status)]]
    IN IF rd.exc = "FileNotFoundError" THEN ExceptFileNotFound(old)
       ELSE IF ~rd.ok THEN Failed(old)
       ELSE IF \E i \in 1..Len(rd.rows) : ~DateParses(rd.rows[i].creation_date)
       THEN Failed(old)
       ELSE Saved(old, df, writable)

clean_pets_data(file, old, writable) ==
    LET rd == read_excel(file, FALSE)
        dt == ColDtype(rd.rows, "client_phone")
        df == [i \in 1..Len(rd.rows) |->
                 [pet_name |-> FrameValue(rd.rows[i].pet_name),
                  code |-> FrameValue(rd.rows[i].code),
                  creation_date |-> to_datetime(rd.rows[i].creation_date),
                  status |-> FrameValue(rd.rows[i].status),
                  type |-> FrameValue(rd.rows[i].type),
                  client_phone |-> PhoneValue(rd.rows[i].client_phone, dt)]]
    IN IF rd.exc = "FileNotFoundError" THEN ExceptFileNotFound(old)
       ELSE IF ~rd.ok THEN Failed(old)
       ELSE IF \E i \in 1..Len(rd.rows) : ~DateParses(rd.rows[i].creation_date)
       THEN Failed(old)
       ELSE Saved(old, df, writable)

\* Mutant: dropna over the three numeric columns.
ServicesKeepAllNumeric(rows) == dropna(rows, {"quantity", "cost", "sale_price"})

\* The rows services_df.dropna(subset=["sale_price"]) keeps.
ServicesKeep(rows) == dropna(rows, {"sale_price"})


clean_services_data(file, old, writable) ==
    LET rd == read_excel(file, FALSE)
        df == [i \in 1..Len(rd.rows) |->
                 [category |-> FrameValue(rd.rows[i].category),
                  service |-> FrameValue(rd.rows[i].service),
                  quantity |-> to_numeric(rd.rows[i].quantity),
                  cost |-> to_numeric(rd.rows[i].cost),
                  sale_price |-> to_numeric(rd.rows[i].sale_price),
                  creation_date |-> to_datetime(rd.rows[i].creation_date)]]
    IN IF rd.exc = "FileNotFoundError" THEN ExceptFileNotFound(old)
       ELSE IF ~rd.ok THEN Failed(old)
       ELSE IF \E i \in 1..Len(rd.rows) : ~DateParses(rd.rows[i].creation_date)
       THEN Failed(old)
       ELSE Saved(old, ServicesKeep(df), writable)

RevenueColumns ==
    {"creation_date", "category", "client", "client_phone", "pet_name",
     "invoice_code", "amount", "discount", "paid", "debit"}

\* Mutant: iloc[:-1].
DropFooterOne(rows) == IF Len(rows) < 1 THEN <<>> ELSE SubSeq(rows, 1, Len(rows) - 1)

\* revenue_df.iloc[:-2]
DropFooter(rows) == IF Len(rows) < 2 THEN <<>> ELSE SubSeq(rows, 1, Len(rows) - 2)

clean_revenue_data(file, old, writable) ==
    LET rd == read_excel(file, FALSE)
        dt == ColDtype(rd.rows, "client_phone")
        body == DropFooter(rd.rows)
        df == [i \in 1..Len(body) |->
                 [creation_date |-> to_datetime(body[i].creation_date),
                  category |-> FrameValue(body[i].category),
                  client |-> FrameValue(body[i].client),
                  client_phone |-> PhoneValue(body[i].client_phone, dt),
                  pet_name |-> FrameValue(body[i].pet_name),
                  invoice_code |-> FrameValue(body[i].invoice_code),
                  amount |-> FrameValue(body[i].amount),
                  discount |-> FrameValue(body[i].discount),
                  paid |-> FrameValue(body[i].paid),
                  debit |-> FrameValue(body[i].debit)]]
    IN IF rd.exc = "FileNotFoundError" THEN ExceptFileNotFound(old)
       ELSE IF ~rd.ok THEN Failed(old)
       ELSE IF \E i \in 1..Len(body) : ~DateParses(body[i].creation_date)
       THEN Failed(old)
       ELSE Saved(old, dropna(df, RevenueColumns), writable)

----------------------------------------------------------------------------
(* The raw stores the model explores *)

D1 == <<"D", "1">>
BadText == <<"x">>
P20 == <<"2", "0">>
P20dot0 == <<"2", "0", ".", "0">>

SeqsUpTo(S, n) == UNION {[1..k -> S] : k \in 0..n}

PhoneCells == {Blank, Num(P20), Txt(P20), Txt(P20dot0)}

ClientRow(p, d) ==
    [name |-> Txt(<<"A">>), id |-> Num(<<"7">>), phone |-> p,
     creation_date |-> d, status |-> Txt(<<"o", "n">>)]

\* The row read_excel takes as the header of clients.xlsx (header=0).
ClientHeader == ClientRow(Txt(<<"p">>), Txt(<<"c">>))

PetRow(p, d) ==
    [pet_name |-> Txt(<<"R">>), code |-> Num(<<"3">>), creation_date |-> d,
     status |-> Txt(<<"o", "n">>), type |-> Txt(<<"c">>), client_phone |-> p]

ServiceRow(q, c, s, d) ==
    [category |-> Txt(<<"V">>), service |-> Txt(<<"S">>), quantity |-> q,
     cost |-> c, sale_price |-> s, creation_date |-> d]

RevGood ==
    [creation_date |-> Dt(D1), category |-> Txt(<<"V">>), client |-> Txt(<<"A">>),
     client_phone |-> Num(P20), pet_name |-> Txt(<<"R">>),
     invoice_code |-> Txt(<<"I">>), amount |-> Num(<<"9">>),
     discount |-> Num(<<"0">>), paid |-> Num(<<"9">>), debit |-> Num(<<"0">>)]

\* A revenue row with the cell of column col replaced by c.
RevWith(col, c) == [RevGood EXCEPT ![col] = c]

\* The vendor's summary row: totals only.
RevFooter ==
    [c \in RevenueColumns |->
       IF c \in {"amount", "discount", "paid", "debit"} THEN Num(<<"9">>) ELSE Blank]

RevenueRows ==
    {RevGood, RevFooter, RevWith("creation_date", Txt(BadText)),
     RevWith("amount", Txt(BadText))}
    \cup {RevWith(col, Blank) :
            col \in {"creation_date", "client_phone", "category", "debit"}}

\* Sheets of clients.xlsx: empty, or the header row and data rows.
ClientSheets(S, n) == {<<>>} \cup {<<ClientHeader>> \o s : s \in SeqsUpTo(S, n)}

Files(sheets) == {NoFile} \cup {File(s) : s \in sheets}

\* All four reports vary together: absent, empty, a clean row, a row whose
\* date does not parse.
MainStores ==
    [clients : Files(ClientSheets({ClientRow(Num(P20), Dt(D1)),
                                   ClientRow(Num(P20), Txt(BadText))}, MainRows)),
     pets : Files(SeqsUpTo({PetRow(Num(P20), Dt(D1)),
                            PetRow(Num(P20), Txt(BadText))}, MainRows)),
     services : Files(SeqsUpTo({ServiceRow(Num(<<"1">>), Num(<<"5">>), Num(<<"8">>), Dt(D1)),
                                ServiceRow(Num(<<"1">>), Num(<<"5">>), Txt(BadText), Dt(D1))},
                               MainRows)),
     revenue : Files(SeqsUpTo({RevGood, RevFooter}, MainRows))]

\* clients.xlsx and pets.xlsx vary the phone cell.
PhoneStores ==
    [clients : Files(ClientSheets({ClientRow(p, Dt(D1)) : p \in PhoneCells}, PhoneRows)),
     pets : Files(SeqsUpTo({PetRow(p, Dt(D1)) : p \in PhoneCells}, PhoneRows)),
     services : {NoFile},
     revenue : {NoFile}]

ServiceRows ==
    {ServiceRow(qc[1], qc[2], s, Dt(D1)) :
        qc \in {<<Num(<<"1">>), Num(<<"5">>)>>, <<Txt(BadText), Blank>>},
        s \in {Num(<<"8">>), Txt(<<"8">>), Txt(BadText), Blank}}
    \cup {ServiceRow(Num(<<"1">>), Num(<<"5">>), Num(<<"8">>), d) :
            d \in {Blank, Txt(BadText), Txt(CHOOSE t \in DateTexts : TRUE)}}

ServicesStores ==
    [clients : {NoFile}, pets : {NoFile},
     services : Files(SeqsUpTo(ServiceRows, SvcRows)),
     revenue : {NoFile}]

RevenueStores ==
    [clients : {NoFile}, pets : {NoFile}, services : {NoFile},
     revenue : Files(SeqsUpTo(RevenueRows, RevRows))]

RawStores == MainStores \cup PhoneStores \cup ServicesStores \cup RevenueStores

AllNoFile == [r \in Reports |-> NoFile]
AllNotRun == [r \in Reports |-> NotRun]

----------------------------------------------------------------------------
(* process_data.main *)

\* The clean step is not running.
CleanIdle ==
    /\ rawDirExists = FALSE
    /\ cleanWritable = FALSE
    /\ raw = AllNoFile
    /\ clean = AllNoFile
    /\ result = AllNotRun
    /\ pc = "off"
    /\ runs = 1
    /\ first = [res |-> AllNotRun, cl |-> AllNoFile]

\* The dashboard is not running.
DashIdle ==
    /\ csv = <<>>
    /\ dfs = <<>>
    /\ from_date = 0
    /\ to_date = 0
    /\ filtered = <<>>
    /\ fpc = "off"
    /\ page = ""

\* The ingest step is not running.
IngestIdle ==
    /\ ipc = "off"
    /\ idx = 0
    /\ auth = <<>>
    /\ today = 0
    /\ requests = <<>>
    /\ resp = <<>>
    /\ pkg = <<>>
    /\ store = <<>>
    /\ rawWritable = FALSE
    /\ now = 0
    /\ dirs = {}

InitClean ==
    /\ rawDirExists \in BOOLEAN
    /\ cleanWritable \in BOOLEAN
    /\ raw \in (IF rawDirExists THEN RawStores ELSE {AllNoFile})
    /\ clean = AllNoFile
    /\ result = AllNotRun
    /\ pc = "start"
    /\ runs = 1
    /\ first = [res |-> AllNotRun, cl |-> AllNoFile]
    /\ DashIdle
    /\ IngestIdle

\* main, up to the check of the raw directory: raises when it is missing.
MainStart ==
    /\ pc = "start"
    /\ pc' = IF rawDirExists THEN "clients" ELSE "raised"
    /\ UNCHANGED <<rawDirExists, cleanWritable, raw, clean, result, runs, first, dashVars, ingestVars>>

\* One call of a cleaner from main; an exception leaving it ends main.
Call(r, out, next) ==
    /\ result' = [result EXCEPT ![r] = out.ret]
    /\ clean' = [clean EXCEPT ![r] = out.file]
    /\ pc' = IF out.ret.st = "raised" THEN "raised" ELSE next
    /\ UNCHANGED <<rawDirExists, cleanWritable, raw, runs, first, dashVars, ingestVars>>

CleanClients ==
    /\ pc = "clients"
    /\ Call("clients", clean_clients_data(raw.clients, clean.clients, cleanWritable), "pets")

CleanPets ==
    /\ pc = "pets"
    /\ Call("pets", clean_pets_data(raw.pets, clean.pets, cleanWritable), "services")

CleanServices ==
    /\ pc = "services"
    /\ Call("services", clean_services_data(raw.services, clean.services, cleanWritable),
            "revenue")

CleanRevenue ==
    /\ pc = "revenue"
    /\ Call("revenue", clean_revenue_data(raw.revenue, clean.revenue, cleanWritable), "done")

\* The clean step is started again on the same raw and clean directories.
Rerun ==
    /\ pc = "done"
    /\ runs < MaxRuns
    /\ first' = [res |-> result, cl |-> clean]
    /\ result' = AllNotRun
    /\ pc' = "start"
    /\ runs' = runs + 1
    /\ UNCHANGED <<rawDirExists, cleanWritable, raw, clean, dashVars, ingestVars>>

NextClean ==
    \/ MainStart
    \/ CleanClients
    \/ CleanPets
    \/ CleanServices
    \/ CleanRevenue
    \/ Rerun

SpecClean == InitClean /\ [][NextClean]_vars

----------------------------------------------------------------------------
(* Claims about the clean step, checked under SpecClean *)

\* The clean file of report r as it was when this run of main started.
Before(r) == IF runs = 1 THEN NoFile ELSE first.cl[r]

\* What the cleaner of report r gives on that report's raw file alone.
Alone(r) ==
    CASE r = "clients" -> clean_clients_data(raw[r], Before(r), cleanWritable)
      [] r = "pets" -> clean_pets_data(raw[r], Before(r), cleanWritable)
      [] r = "services" -> clean_services_data(raw[r], Before(r), cleanWritable)
      [] OTHER -> clean_revenue_data(raw[r], Before(r), cleanWritable)

\* C1: in a run of main over an existing raw directory no cleaner raises;
\* a cleaner whose raw file is absent returns None and leaves its clean
\* file alone; all four cleaners are run whichever files are absent, and
\* each report's result and clean file are those its own raw file gives.
C1_MissingFileIsolated ==
    rawDirExists =>
        /\ pc # "raised"
        /\ \A r \in Reports :
             /\ pc = "done" => result[r] # NotRun
             /\ result[r] # NotRun /\ ~raw[r].present =>
                    result[r] = None /\ clean[r] = Before(r)
             /\ result[r] # NotRun =>
                    result[r] = Alone(r).ret /\ clean[r] = Alone(r).file

C1_Witness ==
    /\ pc = "done"
    /\ ~raw.clients.present
    /\ ~raw.services.present
    /\ result.pets.st = "table"
    /\ Len(result.pets.rows) > 0
    /\ clean.pets.present

\* The columns clean_revenue_data leaves as read.
RevenueUntouched ==
    {"category", "client", "pet_name", "invoice_code", "amount", "discount",
     "paid", "debit"}

\* Clean revenue row o comes from raw revenue row x.
RevenueFrom(o, x) == \A c \in RevenueUntouched : o[c] = FrameValue(x[c])

\* C2: the clean revenue output has at most n - 2 rows for a sheet of n
\* rows, each of them one of the first n - 2 rows of the sheet, whatever
\* the last two rows hold; a sheet of fewer than 2 rows gives no row.
C2_RevenueFooterDropped ==
    result.revenue # NotRun =>
        LET in == raw.revenue.rows
            n == Len(in)
            out == result.revenue.rows
        IN /\ n < 2 => out = <<>>
           /\ n >= 2 => Len(out) <= n - 2
           /\ \A j \in 1..Len(out) : \E i \in 1..(n - 2) : RevenueFrom(out[j], in[i])
           /\ clean.revenue.present /\ result.revenue.st = "table" =>
                  Len(clean.revenue.rows) = Len(out)

C2_Witness ==
    /\ result.revenue.st = "table"
    /\ Len(raw.revenue.rows) = 3
    /\ Len(result.revenue.rows) = 1
    /\ raw.revenue.rows[2] = RevGood
    /\ raw.revenue.rows[3] = RevGood

NoBlank(x) == \A c \in DOMAIN x : x[c].k # "blank"

\* C3 (as claimed): the clean revenue output holds no row that, after the
\* footer removal, has a missing value in one of the ten columns: it has
\* at most as many rows as the first n - 2 rows without a blank cell.
C3_RevenueMissingExcluded ==
    result.revenue.st = "table" =>
        LET in == raw.revenue.rows
            n == Len(in)
        IN Len(result.revenue.rows) <= Cardinality({i \in 1..(n - 2) : NoBlank(in[i])})

\* A cell that coerces to a number.
Coerces(c) == c.k = "num" \/ (c.k = "text" /\ IsDigitString(c.v))

Coerced(c) == IF Coerces(c) THEN Number(c.v) ELSE NaN

\* C4: when clean_services_data gives a table, its rows are exactly the
\* raw rows whose sale price coerces to a number, in their order; the
\* quantity and the cost of a kept row are the number they coerce to, or
\* missing.
C4_ServicesSalePriceFilter ==
    result.services.st = "table" =>
        LET in == raw.services.rows
            out == result.services.rows
            Valid(x) == Coerces(x.sale_price)
            kept == SelectSeq(in, Valid)
        IN /\ Len(out) = Len(kept)
           /\ \A j \in 1..Len(out) :
                /\ out[j].sale_price = Number(kept[j].sale_price.v)
                /\ out[j].quantity = Coerced(kept[j].quantity)
                /\ out[j].cost = Coerced(kept[j].cost)
           /\ clean.services.present /\ Len(clean.services.rows) = Len(kept)

C4_Witness ==
    /\ result.services.st = "table"
    /\ Len(raw.services.rows) = 2
    /\ ~Coerces(raw.services.rows[1].sale_price)
    /\ Len(result.services.rows) = 1
    /\ result.services.rows[1].quantity = NaN
    /\ result.services.rows[1].cost = NaN

\* C5 (as claimed): every phone of the clean clients table and every
\* client_phone of the clean pets table is a digit string.
C5_PhonesAreDigitStrings ==
    /\ result.clients.st = "table" =>
           \A i \in 1..Len(result.clients.rows) :
               IsDigitString(result.clients.rows[i].phone.v)
    /\ result.pets.st = "table" =>
           \A i \in 1..Len(result.pets.rows) :
               IsDigitString(result.pets.rows[i].client_phone.v)

\* C6: a second run of a cleaner on the same raw file and clean directory
\* returns what the first run returned and leaves the clean file as the
\* first run left it.
C6_CleanIdempotent ==
    \A r \in Reports :
        runs >= 2 /\ result[r] # NotRun =>
            result[r] = first.res[r] /\ clean[r] = first.cl[r]

C6_Witness ==
    /\ runs = 2
    /\ pc = "done"
    /\ clean.clients.present
    /\ Len(clean.clients.rows) > 0
    /\ clean.revenue.present
    /\ result.revenue = first.res.revenue

\* C14 (as claimed): main never ends with an exception; when the raw
\* directory of the day does not exist every report is "no data".
C14_MainNeverRaises ==
    /\ pc # "raised"
    /\ ~rawDirExists /\ pc = "done" => \A r \in Reports : result[r] = None

\* C14 (amended): main never ends with an exception when the raw directory
\* of the day exists, whatever the raw files hold and whether or not the
\* clean directory can be written; when that directory does not exist,
\* main raises FileNotFoundError before any cleaner runs and no clean file
\* is written.
C14_MainRaisesOnlyOnMissingDir ==
    /\ rawDirExists => pc # "raised"
    /\ ~rawDirExists /\ pc # "start" =>
           /\ pc = "raised"
           /\ result = AllNotRun
           /\ clean = AllNoFile

C14_Witness ==
    /\ ~rawDirExists
    /\ pc = "raised"
    /\ result = AllNotRun

\* C16 (as claimed): the creation_date of every row of every clean table
\* is a date, never a missing value.
C16_DatesValid ==
    \A r \in Reports :
        result[r].st = "table" =>
            \A i \in 1..Len(result[r].rows) :
                result[r].rows[i].creation_date.k = "timestamp"

\* The amounts of a revenue row.
RevenueAmounts == {"amount", "discount", "paid", "debit"}

\* C17 (as claimed): every row of the clean revenue table has a number in
\* amount, discount, paid and debit.
C17_RevenueAmountsNumeric ==
    result.revenue.st = "table" =>
        \A i \in 1..Len(result.revenue.rows) :
            \A c \in RevenueAmounts : result.revenue.rows[i][c].k = "number"

\* The rows of report r's sheet in which the cleaner parses a date: all
\* but the header row of clients and the footer rows of revenue.
DataRows(r, rows) ==
    CASE r = "clients" -> IF rows = <<>> THEN <<>> ELSE Tail(rows)
      [] r = "revenue" -> DropFooter(rows)
      [] OTHER -> rows

\* The sheet of report r without the data rows whose date does not parse.
WithoutBadDates(r, rows) ==
    LET Good(x) == DateParses(x.creation_date)
        kept == SelectSeq(DataRows(r, rows), Good)
    IN CASE r = "clients" -> <<Head(rows)>> \o kept
         [] r = "revenue" -> kept \o SubSeq(rows, Len(rows) - 1, Len(rows))
         [] OTHER -> kept

CleanerOf(r, file, old, writable) ==
    CASE r = "clients" -> clean_clients_data(file, old, writable)
      [] r = "pets" -> clean_pets_data(file, old, writable)
      [] r = "services" -> clean_services_data(file, old, writable)
      [] OTHER -> clean_revenue_data(file, old, writable)

\* C18 (as claimed): a sheet with a data row whose date does not parse
\* still gives a table, and the table holds every row the cleaner gives on
\* the sheet without such rows.
C18_MalformedDateTolerated ==
    \A r \in Reports :
        LET rows == raw[r].rows
            bad == \E i \in 1..Len(DataRows(r, rows)) :
                       ~DateParses(DataRows(r, rows)[i].creation_date)
            others == CleanerOf(r, File(WithoutBadDates(r, rows)), Before(r),
                                cleanWritable).ret.rows
        IN result[r] # NotRun /\ cleanWritable /\ raw[r].present /\ bad =>
               /\ result[r].st = "table"
               /\ \A j \in 1..Len(others) :
                      \E i \in 1..Len(result[r].rows) : result[r].rows[i] = others[j]

\* C20: a cleaner that returns a table has written the clean file, which
\* holds the rows of that table; when the clean directory cannot be
\* created or written the cleaner returns None, leaves the clean file as
\* it was, and no exception leaves it.
C20_TableMeansWritten ==
    \A r \in Reports :
        /\ result[r].st = "table" =>
               /\ clean[r].present
               /\ clean[r].rows = CsvRows(result[r].rows)
        /\ result[r] # NotRun /\ ~cleanWritable =>
               /\ result[r] = None
               /\ clean[r] = Before(r)
        /\ rawDirExists /\ ~cleanWritable => pc # "raised"

C20_Witness ==
    /\ runs = 1
    /\ pc = "done"
    /\ result.services.st = "table"
    /\ Len(raw.services.rows) = 2
    /\ Len(result.services.rows) = 1
    /\ clean.services.present
    /\ clean.services.rows = CsvRows(result.services.rows)

----------------------------------------------------------------------------
(* dashboard.py: load_data, the date inputs and filter_df.                *)
(* An instant is a number, TicksPerDay of them to a calendar day;         *)
(* Series.dt.date gives the day.  NaT is the missing instant.             *)

Tables == {"revenue", "clients", "services", "pets", "expenses"}

NaT == 0 - 1
Days == {0, 1, 2}
Stamp(d, t) == d * TicksPerDay + t
LastTick == TicksPerDay - 1

\* Series.dt.date on one element.
DateOf(ts) == ts \div TicksPerDay

NoCsv == [present |-> FALSE, cols |-> {}, rows |-> <<>>]
Csv(cols, rows) == [present |-> TRUE, cols |-> cols, rows |-> rows]

\* pd.DataFrame()
EmptyFrame == [cols |-> {}, dt |-> {}, rows |-> <<>>]

NotFiltered == [st |-> "notrun", rows |-> <<>>]

\* A table with a row on the first and the last instant of every day and
\* a row without date, not in date order; its date column runs the other
\* way round.
ProbeStamps ==
    <<Stamp(1, LastTick), NaT, Stamp(2, 0), Stamp(0, 0), Stamp(1, 0),
      Stamp(2, LastTick), Stamp(0, LastTick)>>

ProbeRows ==
    [i \in 1..Len(ProbeStamps) |->
       [id |-> i, creation_date |-> ProbeStamps[i],
        date |-> ProbeStamps[Len(ProbeStamps) + 1 - i]]]

\* revenue.csv as clean_revenue_data writes it: every row has its date.
RevenueStamps == {Stamp(0, LastTick), Stamp(1, 0), Stamp(2, 0)}

RevenueTables ==
    {[i \in 1..Len(q) |-> [id |-> i, creation_date |-> q[i], date |-> NaT]] :
        q \in SeqsUpTo(RevenueStamps, FltRows)}

\* The columns of the clean files, as the cleaners name them.
ClientsColumns == {"name", "id", "phone", "creation_date", "status"}
PetsColumns == {"pet_name", "code", "creation_date", "status", "type", "client_phone"}
ServicesColumns == {"category", "service", "quantity", "cost", "sale_price", "creation_date"}

\* The files of DATABASE_DIR: each absent or with the columns its cleaner
\* writes; services.csv also with a doctor column, expenses.csv with a
\* category, an amount and any of the two date columns.
CsvStores ==
    [revenue : {NoCsv} \cup {Csv(RevenueColumns, t) : t \in RevenueTables},
     clients : {NoCsv, Csv(ClientsColumns, ProbeRows)},
     services : {NoCsv, Csv(ServicesColumns, ProbeRows),
                 Csv(ServicesColumns \cup {"doctor"}, ProbeRows)},
     pets : {NoCsv, Csv(PetsColumns, ProbeRows)},
     expenses : {NoCsv} \cup {Csv({"category", "amount"} \cup c, ProbeRows) :
                                c \in SUBSET {"creation_date", "date"}}]

\* load_data, one table: a missing file is an empty frame; creation_date
\* is converted when the file has it, otherwise the date column of the
\* expenses file.
LoadTable(key, f) ==
    IF ~f.present THEN EmptyFrame
    ELSE [cols |-> f.cols,
          dt |-> IF "creation_date" \in f.cols THEN {"creation_date"}
                 ELSE IF key = "expenses" /\ "date" \in f.cols THEN {"date"}
                 ELSE {},
          rows |-> f.rows]

\* DataFrame.empty
IsEmpty(df) == df.rows = <<>>

Max(S) == CHOOSE x \in S : \A y \in S : x >= y

\* The bounds of the two date inputs: 2020-01-01 (the first day) to today
\* (the last day), or the first and last date of the revenue table.
DateBounds(rev) ==
    LET valid == {rev.rows[i].creation_date : i \in 1..Len(rev.rows)} \ {NaT}
    IN IF IsEmpty(rev) THEN [ok |-> TRUE, lo |-> Min(Days), hi |-> Max(Days)]
       ELSE IF "creation_date" \notin rev.cols \/ valid = {}
       THEN [ok |-> FALSE, lo |-> 0, hi |-> 0]
       ELSE [ok |-> TRUE, lo |-> DateOf(Min(valid)), hi |-> DateOf(Max(valid))]

\* The mask of filter_df on one row: a comparison with NaT is False.
InRange(ts, lo, hi) == ts # NaT /\ DateOf(ts) >= lo /\ DateOf(ts) <= hi

\* filter_df(df, date_col); .dt on a column that was not converted raises
\* AttributeError.
filter_df(df, date_col, lo, hi) ==
    LET Mask(r) == InRange(r[date_col], lo, hi)
    IN IF IsEmpty(df) \/ date_col \notin df.cols THEN [st |-> "ok", rows |-> df.rows]
       ELSE IF date_col \notin df.dt THEN [st |-> "error", rows |-> <<>>]
       ELSE [st |-> "ok", rows |-> SelectSeq(df.rows, Mask)]

\* exp_date_col
ExpDateCol(df) == IF ~IsEmpty(df) /\ "date" \in df.cols THEN "date" ELSE "creation_date"

DateCol(key, df) == IF key = "expenses" THEN ExpDateCol(df) ELSE "creation_date"

Pages == {"Overview", "Financial Performance", "Operations", "Clients"}

\* Whether the branch of a page runs to its end.  d are the loaded frames,
\* f the filtered ones; a filtered frame has the columns of the loaded
\* one.  df[col] raises KeyError when the frame has no such column.
OverviewRenders(d, f) ==
    /\ f.revenue.rows # <<>> =>
           "paid" \in d.revenue.cols /\ "creation_date" \in d.revenue.dt
    /\ f.expenses.rows # <<>> => "amount" \in d.expenses.cols

\* rev_filtered['paid'] and services_filtered['cost'] are read
\* whether or not the frames are empty.
FinancialRenders(d, f) ==
    /\ "paid" \in d.revenue.cols
    /\ "cost" \in d.services.cols

\* The charts of a non-empty services table read service, quantity and
\* sale_price of the filtered frame and doctor of the loaded one.
OperationsRenders(d, f) ==
    f.services.rows # <<>> =>
        {"service", "quantity", "sale_price", "doctor"} \subseteq d.services.cols

\* clients_filtered['status'] is read whether or not the frame is empty;
\* clients_growth is assigned only when clients_filtered is not empty and
\* read after that in any case (NameError).
ClientsRenders(d, f) ==
    /\ ~IsEmpty(d.revenue) => {"debit", "client", "paid"} \subseteq d.revenue.cols
    /\ "status" \in d.clients.cols
    /\ f.clients.rows # <<>>
    /\ "creation_date" \in d.clients.dt

RenderPage(p, d, f) ==
    CASE p = "Overview" -> OverviewRenders(d, f)
      [] p = "Financial Performance" -> FinancialRenders(d, f)
      [] p = "Operations" -> OperationsRenders(d, f)
      [] OTHER -> ClientsRenders(d, f)

\* The order in which the script filters the tables.
FilterOrder == <<"revenue", "clients", "services", "pets", "expenses">>

InitDash ==
    /\ csv \in CsvStores
    /\ dfs = [k \in Tables |-> EmptyFrame]
    /\ from_date = 0
    /\ to_date = 0
    /\ filtered = [k \in Tables |-> NotFiltered]
    /\ fpc = "load"
    /\ page = "Overview"
    /\ CleanIdle
    /\ IngestIdle

\* dfs, latest_dir = load_data()
Load ==
    /\ fpc = "load"
    /\ dfs' = [k \in Tables |-> LoadTable(k, csv[k])]
    /\ fpc' = "page"
    /\ UNCHANGED <<csv, from_date, to_date, filtered, page, cleanVars, ingestVars>>

\* The navigation buttons of the sidebar set st.session_state.page.
Navigate ==
    /\ fpc = "page"
    /\ page' \in Pages
    /\ fpc' = "dates"
    /\ UNCHANGED <<csv, dfs, from_date, to_date, filtered, cleanVars, ingestVars>>

\* The global date filter of the sidebar: both inputs are bounded by
\* min_date and max_date, and independent of each other.
PickDates ==
    /\ fpc = "dates"
    /\ LET b == DateBounds(dfs.revenue)
       IN IF b.ok
          THEN /\ from_date' \in b.lo..b.hi
               /\ to_date' \in b.lo..b.hi
               /\ fpc' = "filter"
          ELSE /\ UNCHANGED <<from_date, to_date>>
               /\ fpc' = "error"
    /\ UNCHANGED <<csv, dfs, filtered, page, cleanVars, ingestVars>>

\* rev_filtered ... expenses_filtered: an exception ends the script.
FilterAll ==
    /\ fpc = "filter"
    /\ LET Out(k) == filter_df(dfs[k], DateCol(k, dfs[k]), from_date, to_date)
           Pos(k) == CHOOSE i \in 1..Len(FilterOrder) : FilterOrder[i] = k
           Stopped(k) == \E i \in 1..(Pos(k) - 1) : Out(FilterOrder[i]).st = "error"
       IN /\ filtered' = [k \in Tables |-> IF Stopped(k) THEN NotFiltered ELSE Out(k)]
          /\ fpc' = IF \E k \in Tables : Out(k).st = "error" THEN "error" ELSE "filtered"
    /\ UNCHANGED <<csv, dfs, from_date, to_date, page, cleanVars, ingestVars>>

\* "4. PAGE LOGIC": the branch of the selected page runs; an exception
\* ends the script.
Render ==
    /\ fpc = "filtered"
    /\ fpc' = IF RenderPage(page, dfs, filtered) THEN "rendered" ELSE "pagefailed"
    /\ UNCHANGED <<csv, dfs, from_date, to_date, filtered, page, cleanVars, ingestVars>>

NextDash ==
    \/ Load
    \/ Navigate
    \/ PickDates
    \/ FilterAll
    \/ Render

SpecDash == InitDash /\ [][NextDash]_vars

\* C7 (as claimed): filter_df returns, for every table that has its date
\* column, exactly the rows whose date lies in [from_date, to_date], in
\* their order.
C7_FilterInclusiveRange ==
    fpc \in {"filtered", "error"} =>
        \A k \in Tables :
            LET col == DateCol(k, dfs[k])
                InDates(r) == r[col] # NaT /\ from_date <= DateOf(r[col])
                              /\ DateOf(r[col]) <= to_date
            IN col \in dfs[k].cols =>
                   /\ filtered[k].st = "ok"
                   /\ filtered[k].rows = SelectSeq(dfs[k].rows, InDates)

\* What holds of filter_df: on every table whose date column load_data
\* converted, the rows returned are exactly those in the inclusive range.
FilterInclusiveWhenConverted ==
    \A k \in Tables :
        LET col == DateCol(k, dfs[k])
            InDates(r) == r[col] # NaT /\ from_date <= DateOf(r[col])
                          /\ DateOf(r[col]) <= to_date
        IN filtered[k].st = "ok" /\ col \in dfs[k].dt =>
               filtered[k].rows = SelectSeq(dfs[k].rows, InDates)

\* C15 (as claimed): whichever page is selected and whichever tables are
\* empty, the page logic runs to its end without raising.
C15_PagesRender ==
    \A p \in Pages :
        page = p /\ fpc \in {"rendered", "pagefailed"} => fpc = "rendered"

\* The pages do render when every table is loaded with rows in the range
\* and services.csv has its doctor column, but for an expenses.csv that
\* has both date columns.
PagesRenderOnFullTables ==
    (/\ fpc \in {"rendered", "pagefailed"}
     /\ \A k \in Tables : filtered[k].rows # <<>>
     /\ "doctor" \in dfs.services.cols) => fpc = "rendered"

----------------------------------------------------------------------------
(* ingest_data.py with the endpoint table of Constants.py *)

LookbackDays == 7

\* strftime("%Y-%m-%d") of consecutive days.
DateNames ==
    <<"2025-12-19", "2025-12-20", "2025-12-21", "2025-12-22", "2025-12-23",
      "2025-12-24", "2025-12-25", "2025-12-26", "2025-12-27", "2025-12-28">>

\* The days on which the model runs the ingest step.
Todays == {9, 10}

\* ENDPOINTS
EndpointKeys == {"signin", "clients", "services", "pets", "revenue", "expenses"}

\* ENDPOINTS[key].get("params", {})
DefaultParams(key) ==
    CASE key = "clients" ->
           [CreatedAtFrom |-> "2025-12-27", CreatedAtTo |-> "2025-12-27",
            IsActive |-> "true"]
      [] key = "services" ->
           [CreatedAtFrom |-> "2025-12-27", CreatedAtTo |-> "2025-12-27",
            IsActive |-> "true", userId |-> "", ServiceId |-> "",
            ServiceCategoryId |-> ""]
      [] key = "pets" ->
           [CreatedAtFrom |-> "2025-12-27", CreatedAtTo |-> "2025-12-27",
            IsActive |-> "true", SpecieId |-> ""]
      [] key = "revenue" ->
           [CreatedAtFrom |-> "2025-12-27", CreatedAtTo |-> "2025-12-27",
            Type |-> ""]
      [] key = "expenses" ->
           [CreatedAtFrom |-> "2025-12-27", CreatedAtTo |-> "2025-12-27"]
      [] OTHER -> [k \in {} |-> ""]

\* Mutant: the defaults overwrite the caller's parameters.
MergeDefaultsWin(defaults, dynamic) ==
    [k \in (DOMAIN defaults) \cup (DOMAIN dynamic) |->
       IF k \in DOMAIN defaults THEN defaults[k] ELSE dynamic[k]]

\* params = defaults.copy(); params.update(dynamic_params)
Merge(defaults, dynamic) ==
    [k \in (DOMAIN defaults) \cup (DOMAIN dynamic) |->
       IF k \in DOMAIN dynamic THEN dynamic[k] ELSE defaults[k]]

StartsWith(s, pre) == Len(s) >= Len(pre) /\ SubSeq(s, 1, Len(pre)) = pre

Contains(s, sub) ==
    \E i \in 1..(Len(s) - Len(sub) + 1) : SubSeq(s, i, i + Len(sub) - 1) = sub

PK == <<"P", "K">>
Json == <<"j", "s", "o", "n">>

\* Bodies that response.json() parses.
JsonTexts == {<<"{", "}">>, <<"[", "]">>}

\* JSON values as response.json() gives them: a list of items, an object
\* (a function from its keys to their values) or a scalar.
JList(items) == [t |-> "list", s |-> "", items |-> items, val |-> <<>>]
JDict(val) == [t |-> "dict", s |-> "", items |-> <<>>, val |-> val]
JScalar(s) == [t |-> "scalar", s |-> s, items |-> <<>>, val |-> <<>>]

\* A package that has no "data" key.
NoData == JScalar("absent")

\* response.json() on the bodies of JsonTexts.
ParseJson(body) == IF body = <<"{", "}">> THEN JDict(<<>>) ELSE JList(<<>>)

\* None
NoPackage == [type |-> "none", content |-> <<>>, data |-> NoData]

\* {"type": "file", "content": response.content}
FilePackage(body) == [type |-> "file", content |-> body, data |-> NoData]

\* {"type": "json", "data": response.json()}
JsonPackage(data) == [type |-> "json", content |-> <<>>, data |-> data]

\* Mutant: the declared content type is looked at before the signature.
ClassifyTypeFirst(r) ==
    IF Contains(r.ctype, Json)
    THEN IF r.body \in JsonTexts THEN JsonPackage(ParseJson(r.body)) ELSE NoPackage
    ELSE FilePackage(r.body)

\* fetch_data on a response with status 200; response.json() raising is
\* caught by the handler of the request and gives None.
Classify(r) ==
    IF StartsWith(r.body, PK) THEN FilePackage(r.body)
    ELSE IF Contains(r.ctype, Json)
    THEN IF r.body \in JsonTexts THEN JsonPackage(ParseJson(r.body)) ELSE NoPackage
    ELSE FilePackage(r.body)

TransportError == [err |-> TRUE, status |-> 0, ctype |-> <<>>, body |-> <<>>]
Http(status, ctype, body) == [err |-> FALSE, status |-> status, ctype |-> ctype, body |-> body]

\* Content-Type headers of the responses with status 200; the empty one
\* is a response without the header.
ContentTypes ==
    {<<"a", "/", "j", "s", "o", "n">>, <<"a", "/", "x", "l", "s", "x">>, <<>>}

Bodies ==
    {<<"P", "K", "x">>, <<"{", "}">>, <<"[", "]">>, <<"<", "h", ">">>, <<>>}

Responses ==
    {TransportError, Http(500, <<"t", "/", "h", "t", "m", "l">>, <<"<", "h", ">">>)}
    \cup {Http(200, c, b) : c \in ContentTypes, b \in Bodies}

\* An exception that leaves the function.
RaisedPackage == [type |-> "raised", content |-> <<>>, data |-> NoData]

\* Mutant: the request is made outside the try block, so a transport error
\* leaves fetch_data.
fetch_data_unguarded(token, key, dynamic, r) ==
    IF key \notin EndpointKeys THEN [sent |-> <<>>, ret |-> NoPackage]
    ELSE [sent |-> <<[key |-> key, params |-> Merge(DefaultParams(key), dynamic),
                      bearer |-> token]>>,
          ret |-> IF r.err THEN RaisedPackage
                  ELSE IF r.status = 200 THEN Classify(r)
                  ELSE NoPackage]

\* fetch_data(token, endpoint_key, dynamic_params) when the request gets
\* response r: the request issued, if any, and the value returned.
fetch_data(token, key, dynamic, r) ==
    IF key \notin EndpointKeys THEN [sent |-> <<>>, ret |-> NoPackage]
    ELSE [sent |-> <<[key |-> key, params |-> Merge(DefaultParams(key), dynamic),
                      bearer |-> token]>>,
          ret |-> IF r.err THEN NoPackage
                  ELSE IF r.status = 200 THEN Classify(r)
                  ELSE NoPackage]

DigitChars == <<"0", "1", "2", "3", "4", "5", "6", "7", "8", "9">>

TwoDigits(n) == <<DigitChars[(n \div 10) + 1], DigitChars[(n % 10) + 1]>>

\* strftime("%Y"), strftime("%m") and strftime("%d") of day t: the days
\* are those of DateNames and the ones after them, December 19th 2025 on.
strftime_Y(t) == <<"2", "0", "2", "5">>
strftime_m(t) == <<"1", "2">>
strftime_d(t) == TwoDigits(18 + t)

RawName == <<"r", "a", "w">>

\* A path below DATASETS_DIR is the sequence of its components.
\* target_dir = os.path.join(DATASETS_DIR, "raw", year, month, day)
target_dir(t) == <<RawName, strftime_Y(t), strftime_m(t), strftime_d(t)>>

CleanName == <<"c", "l", "e", "a", "n">>

\* process_data.main: timestamp = datetime.now().strftime("%Y%m%d")
strftime_Ymd(t) == strftime_Y(t) \o strftime_m(t) \o strftime_d(t)

\* process_data.main: os.path.join(DATASETS_DIR, f"raw/{timestamp}")
raw_data_dir(t) == <<RawName, strftime_Ymd(t)>>

\* process_data.main: os.path.join(DATASETS_DIR, f"clean/{timestamp}")
clean_data_dir(t) == <<CleanName, strftime_Ymd(t)>>

\* os.makedirs(path, exist_ok=True): the directory and those above it.
makedirs(ds, path) == ds \cup {SubSeq(path, 1, k) : k \in 1..Len(path)}

\* The keys under which a JSON object may hold its rows, in the order tried.
WrapperKeys == <<"data", "result", "records">>

\* The list save_data hands to pd.DataFrame for a JSON payload: the loop
\* stops at the first wrapper key that holds a list, and "if not records"
\* then replaces an empty list by the whole object.
Records(data) ==
    LET hits == {i \in 1..Len(WrapperKeys) :
                    /\ WrapperKeys[i] \in DOMAIN data.val
                    /\ data.val[WrapperKeys[i]].t = "list"}
        records == IF data.t = "list" THEN data.items
                   ELSE IF data.t = "dict" /\ hits # {}
                   THEN data.val[WrapperKeys[Min(hits)]].items
                   ELSE <<>>
    IN IF data.t = "dict" /\ records = <<>> THEN <<data>> ELSE records

NoRaw == [present |-> FALSE, kind |-> "none", dir |-> <<>>, rows |-> <<>>]

\* Mutant: the directory is created before the package is looked at.
save_data_mkdir_first(package, name, st, ds, writable, t) ==
    IF ~writable THEN [store |-> st, dirs |-> ds]
    ELSE IF package.type = "none"
    THEN [store |-> st, dirs |-> makedirs(ds, target_dir(t))]
    ELSE [store |-> [st EXCEPT ![name] =
                        [present |-> TRUE, kind |-> package.type,
                         dir |-> target_dir(t),
                         rows |-> IF package.type = "json"
                                  THEN Records(package.data) ELSE <<>>]],
          dirs |-> makedirs(ds, target_dir(t))]

\* save_data(data_package, filename_base) on day t: nothing for None; an
\* exception while creating the directory or writing is caught.  Gives
\* the raw files and the directories afterwards.
save_data(package, name, st, ds, writable, t) ==
    IF package.type = "none" THEN [store |-> st, dirs |-> ds]
    ELSE IF ~writable THEN [store |-> st, dirs |-> ds]
    ELSE [store |-> [st EXCEPT ![name] =
                        [present |-> TRUE, kind |-> package.type,
                         dir |-> target_dir(t),
                         rows |-> IF package.type = "json"
                                  THEN Records(package.data) ELSE <<>>]],
          dirs |-> makedirs(ds, target_dir(t))]

\* The JSON bodies of the sign-in response.
AuthDict(success, data, token) ==
    [json |-> "dict", success |-> success, data |-> data, token |-> token]
AuthList == [json |-> "list", success |-> "missing", data |-> "missing", token |-> "missing"]
AuthNotJson == [json |-> "invalid", success |-> "missing", data |-> "missing", token |-> "missing"]

\* auth_data = None
NoAuthData == [json |-> "none", success |-> "missing", data |-> "missing", token |-> "missing"]

AuthBodies ==
    {AuthList, AuthNotJson}
    \cup {AuthDict(s, "missing", "missing") : s \in {"missing", "false", "true"}}
    \cup {AuthDict(s, "null", "missing") : s \in {"missing", "false", "true"}}
    \cup {AuthDict(s, "dict", t) :
            s \in {"missing", "false", "true"}, t \in {"missing", "empty", "tok"}}

AuthResponses ==
    {[err |-> TRUE, status |-> 0, body |-> AuthNotJson]}
    \cup {[err |-> FALSE, status |-> st, body |-> b] : st \in {200, 401}, b \in AuthBodies}

\* sign_in(): the parsed body of a 200 response, None otherwise and when
\* the request or response.json() raises.
sign_in(r) ==
    IF r.err \/ r.status # 200 \/ r.body.json = "invalid" THEN NoAuthData ELSE r.body

\* Mutant: the success flag is not looked at.
AuthOutcomeNoFlag(a) ==
    IF a.json = "none" THEN "failed"
    ELSE IF a.json = "list" THEN "crashed"
    ELSE IF a.data = "missing" THEN "failed"
    ELSE IF a.data = "null" THEN "crashed"
    ELSE IF a.token = "tok" THEN "proceed" ELSE "failed"

\* ingest_data on auth_data: "if auth_data and auth_data.get('success')",
\* then "token = auth_data.get('data', {}).get('token')" and "if token".
\* A list has no get, and neither has a null data: AttributeError.
AuthOutcome(a) ==
    IF a.json = "none" THEN "failed"
    ELSE IF a.json = "list" THEN "crashed"
    ELSE IF a.success # "true" THEN "failed"
    ELSE IF a.data = "missing" THEN "failed"
    ELSE IF a.data = "null" THEN "crashed"
    ELSE IF a.token = "tok" THEN "proceed" ELSE "failed"

\* The order of the five reports in ingest_data.
ReportOrder == <<"clients", "services", "pets", "revenue", "expenses">>

\* common_params
CommonParams(t) ==
    [CreatedAtFrom |-> DateNames[t - LookbackDays], CreatedAtTo |-> DateNames[t]]

InitIngest ==
    /\ ipc = "signin"
    /\ idx = 0
    /\ auth = [err |-> TRUE, status |-> 0, body |-> AuthNotJson]
    /\ today = 0
    /\ requests = <<>>
    /\ resp = TransportError
    /\ pkg = NoPackage
    /\ store = [r \in {ReportOrder[i] : i \in 1..Len(ReportOrder)} |-> NoRaw]
    /\ rawWritable \in BOOLEAN
    /\ now \in Todays
    /\ dirs = {}
    /\ CleanIdle
    /\ DashIdle

\* auth_data = sign_in()
SignIn ==
    /\ ipc = "signin"
    /\ auth' \in AuthResponses
    /\ ipc' = "authcheck"
    /\ UNCHANGED <<idx, today, requests, resp, pkg, store, rawWritable, now, dirs,
                   cleanVars, dashVars>>

\* The checks of auth_data and of the token, and the dates of the run.
CheckAuth ==
    /\ ipc = "authcheck"
    /\ LET o == AuthOutcome(sign_in(auth))
       IN IF o = "proceed"
          THEN /\ today' = now
               /\ idx' = 1
               /\ ipc' = "fetch"
          ELSE /\ ipc' = IF o = "crashed" THEN "crashed" ELSE "done"
               /\ UNCHANGED <<today, idx>>
    /\ UNCHANGED <<auth, requests, resp, pkg, store, rawWritable, now, dirs,
                   cleanVars, dashVars>>

\* x = fetch_data(token, key, common_params); an exception leaving
\* fetch_data ends ingest_data.
Fetch ==
    /\ ipc = "fetch"
    /\ \E r \in Responses :
          LET f == fetch_data("tok", ReportOrder[idx], CommonParams(today), r)
          IN /\ resp' = r
             /\ requests' = requests \o f.sent
             /\ pkg' = f.ret
             /\ ipc' = IF f.ret.type = "raised" THEN "crashed" ELSE "save"
    /\ UNCHANGED <<idx, auth, today, store, rawWritable, now, dirs, cleanVars, dashVars>>

\* save_data(x, key)
Save ==
    /\ ipc = "save"
    /\ LET s == save_data(pkg, ReportOrder[idx], store, dirs, rawWritable, now)
       IN store' = s.store /\ dirs' = s.dirs
    /\ IF idx = Len(ReportOrder)
       THEN ipc' = "done" /\ UNCHANGED idx
       ELSE ipc' = "fetch" /\ idx' = idx + 1
    /\ UNCHANGED <<auth, today, requests, resp, pkg, rawWritable, now, cleanVars, dashVars>>

\* Midnight passes during the run.  The clock is read by save_data only,
\* so the step is taken where a save_data call is about to read it.
Tick ==
    /\ ipc = "save"
    /\ now - today < MaxMidnights
    /\ now' = now + 1
    /\ UNCHANGED <<ipc, idx, auth, today, requests, resp, pkg, store, rawWritable, dirs,
                   cleanVars, dashVars>>

NextIngest ==
    \/ SignIn
    \/ CheckAuth
    \/ Fetch
    \/ Save
    \/ Tick

SpecIngest == InitIngest /\ [][NextIngest]_vars

----------------------------------------------------------------------------
(* Claims about the ingest step, checked under SpecIngest *)

\* C8 (as claimed): of a response with status 200, content that starts
\* with PK is a file payload whatever the Content-Type, otherwise a
\* Content-Type containing "json" gives a JSON payload, and any other
\* response gives a file payload.
C8_ClassifyAsClaimed ==
    ipc = "save" /\ ~resp.err /\ resp.status = 200 =>
        IF StartsWith(resp.body, PK) THEN pkg.type = "file"
        ELSE IF Contains(resp.ctype, Json) THEN pkg.type = "json"
        ELSE pkg.type = "file"

\* C8 (amended): as claimed, but a Content-Type containing "json" gives a
\* JSON payload only when the body parses as JSON; when it does not,
\* fetch_data returns None.  A file payload holds the body as received.
C8_Classify ==
    ipc = "save" /\ ~resp.err /\ resp.status = 200 =>
        IF StartsWith(resp.body, PK)
        THEN pkg.type = "file" /\ pkg.content = resp.body
        ELSE IF Contains(resp.ctype, Json)
        THEN pkg.type = (IF resp.body \in JsonTexts THEN "json" ELSE "none")
        ELSE pkg.type = "file" /\ pkg.content = resp.body

C8_Witness ==
    /\ ipc = "save"
    /\ resp.status = 200
    /\ StartsWith(resp.body, PK)
    /\ Contains(resp.ctype, Json)
    /\ pkg.type = "file"

\* C9: every report request carries the endpoint's default parameters
\* overridden by the caller's: the keys are those of both, CreatedAtFrom
\* and CreatedAtTo are the dates of the run, every other key has its
\* default.
C9_ParamsMerged ==
    \A i \in 1..Len(requests) :
        LET q == requests[i]
            d == DefaultParams(q.key)
            c == CommonParams(today)
        IN /\ DOMAIN q.params = (DOMAIN d) \cup (DOMAIN c)
           /\ \A k \in DOMAIN c : q.params[k] = c[k]
           /\ \A k \in (DOMAIN d) \ (DOMAIN c) : q.params[k] = d[k]
           /\ q.params.CreatedAtFrom = DateNames[today - LookbackDays]
           /\ q.params.CreatedAtTo = DateNames[today]

C9_Witness ==
    /\ Len(requests) = Len(ReportOrder)
    /\ DateNames[today] # "2025-12-27"
    /\ requests[2].key = "services"
    /\ requests[2].params.IsActive = "true"
    /\ requests[2].params.CreatedAtTo = DateNames[today]

\* Sign-in returned HTTP 200 with a true success flag and a token.
Authenticated ==
    /\ ~auth.err
    /\ auth.status = 200
    /\ auth.body.json = "dict"
    /\ auth.body.success = "true"
    /\ auth.body.data = "dict"
    /\ auth.body.token = "tok"

\* C10: unless sign-in returned HTTP 200 with a true success flag and a
\* non-empty token, no report request is issued and no raw file is
\* written: the run ends with zero fetches.
C10_NoFetchWithoutToken ==
    ipc # "signin" /\ ~Authenticated =>
        /\ requests = <<>>
        /\ \A r \in DOMAIN store : ~store[r].present
        /\ ipc \in {"authcheck", "done", "crashed"}

C10_Witness ==
    /\ ipc = "done"
    /\ auth.status = 200
    /\ auth.body.success = "false"
    /\ auth.body.token = "tok"
    /\ requests = <<>>

\* C11: in a run that obtained a token the five reports are requested once
\* each, in the order clients, services, pets, revenue, expenses, whatever
\* the fetches and saves before gave: the run never ends early and issues
\* as many requests as it has reached reports.
C11_FiveReportsInOrder ==
    idx >= 1 =>
        LET order == <<"clients", "services", "pets", "revenue", "expenses">>
            n == IF ipc = "fetch" THEN idx - 1 ELSE idx
        IN /\ ipc \in {"fetch", "save", "done"}
           /\ Len(requests) = n
           /\ \A i \in 1..n : requests[i].key = order[i]
           /\ ipc = "done" => n = 5

C11_Witness ==
    /\ ipc = "done"
    /\ rawWritable
    /\ Len(requests) = 5
    /\ ~store.clients.present
    /\ store.services.present
    /\ ~store.pets.present
    /\ store.revenue.kind = "json"
    /\ resp.err

\* C12: after a fetch that got a transport error or a status other than
\* 200, fetch_data has returned None and the save step of that report
\* leaves the raw files and the directories as they were; an endpoint key
\* that is not configured gives None without a request, and saving None
\* changes nothing.
C12_FailedFetchSavesNothing ==
    [][/\ (ipc = "save" /\ ipc' # "save" /\ (resp.err \/ resp.status # 200)) =>
              /\ pkg = NoPackage
              /\ store' = store
              /\ dirs' = dirs
       /\ ipc = "save" =>
              /\ \A k \in {"inventory", "Clients"} :
                    fetch_data("tok", k, CommonParams(today), resp)
                        = [sent |-> <<>>, ret |-> NoPackage]
              /\ \A r \in DOMAIN store :
                    save_data(NoPackage, r, store, dirs, rawWritable, now)
                        = [store |-> store, dirs |-> dirs]]_vars

C12_Witness ==
    /\ ipc = "fetch"
    /\ idx = 2
    /\ rawWritable
    /\ ~resp.err
    /\ resp.status = 500
    /\ pkg = NoPackage
    /\ ~store.clients.present
    /\ dirs = {}

\* C13 (as claimed): a raw file that save_data wrote on day t lies in the
\* directory process_data.main reads on day t, which exists, and main
\* writes to clean/YYYY/MM/DD of that day.
C13_SamePartition ==
    \A r \in DOMAIN store :
        store[r].present =>
            \A t \in 1..(Len(DateNames) + MaxMidnights) :
                store[r].dir = target_dir(t) =>
                    /\ raw_data_dir(t) = store[r].dir
                    /\ raw_data_dir(t) \in dirs
                    /\ clean_data_dir(t)
                           = <<CleanName, strftime_Y(t), strftime_m(t), strftime_d(t)>>

\* C21 (as claimed): every raw file a run of ingest_data has saved lies in
\* the partition of the day the run took its dates, also when midnight
\* has passed since; so all files of the run lie in one partition.
C21_OnePartitionPerRun ==
    idx >= 1 =>
        /\ \A r \in DOMAIN store :
               store[r].present => store[r].dir = target_dir(today)
        /\ \A r1, r2 \in DOMAIN store :
               store[r1].present /\ store[r2].present => store[r1].dir = store[r2].dir

\* What holds of the partitions: a file lies in the partition of a day
\* from the run's day up to the day the clock shows; without a midnight
\* during the run that is the run's day.
PartitionOfSaveDay ==
    idx >= 1 =>
        \A r \in DOMAIN store :
            store[r].present =>
                \E t \in today..now : store[r].dir = target_dir(t)

----------------------------------------------------------------------------
(* save_data called on its own, on packages with richer JSON payloads *)

\* A row of a report as the API sends it in JSON.
Row(n) == JDict([id |-> JScalar(n)])

JsonLists == {JList(<<>>), JList(<<Row("1")>>), JList(<<Row("1"), Row("2")>>)}

\* The JSON payloads: lists, objects with and without wrapper keys, with
\* a wrapper key that holds no list, and a scalar.
JsonValues ==
    JsonLists
    \cup {JDict(<<>>), JDict([success |-> JScalar("true")]), JScalar("7")}
    \cup {JDict([data |-> l]) : l \in JsonLists}
    \cup {JDict([result |-> l, success |-> JScalar("true")]) : l \in JsonLists}
    \cup {JDict([records |-> l]) : l \in JsonLists}
    \cup {JDict([data |-> JScalar("x"), result |-> JList(<<Row("2")>>)]),
          JDict([data |-> JList(<<>>), result |-> JList(<<Row("2")>>)]),
          JDict([data |-> JList(<<Row("1")>>), records |-> JList(<<Row("2")>>)]),
          JDict([result |-> JList(<<Row("1")>>), records |-> JList(<<>>)]),
          JDict([data |-> JDict(<<>>)])}

SavePackages ==
    {NoPackage, FilePackage(<<"P", "K", "x">>)} \cup {JsonPackage(j) : j \in JsonValues}

InitSave ==
    /\ ipc = "call"
    /\ idx \in 1..Len(ReportOrder)
    /\ auth = <<>>
    /\ today = 0
    /\ requests = <<>>
    /\ resp = <<>>
    /\ pkg \in SavePackages
    /\ store = [r \in {ReportOrder[i] : i \in 1..Len(ReportOrder)} |-> NoRaw]
    /\ rawWritable \in BOOLEAN
    /\ now \in Todays
    /\ dirs = {}
    /\ CleanIdle
    /\ DashIdle

\* save_data(pkg, ReportOrder[idx])
CallSaveData ==
    /\ ipc = "call"
    /\ LET s == save_data(pkg, ReportOrder[idx], store, dirs, rawWritable, now)
       IN store' = s.store /\ dirs' = s.dirs
    /\ ipc' = "returned"
    /\ UNCHANGED <<idx, auth, today, requests, resp, pkg, rawWritable, now,
                   cleanVars, dashVars>>

NextSave == CallSaveData

SpecSave == InitSave /\ [][NextSave]_vars

\* The first wrapper key of object data that holds a list, or 0.
FirstListKey(data) ==
    LET hits == {i \in 1..Len(WrapperKeys) :
                    /\ WrapperKeys[i] \in DOMAIN data.val
                    /\ data.val[WrapperKeys[i]].t = "list"}
    IN IF hits = {} THEN 0 ELSE Min(hits)

\* The row list of a JSON payload as claimed: a list is the row list,
\* the list under the first wrapper key that holds one is the row list
\* also when it is empty, and only an object without such a key is one
\* row.
ClaimedRecords(data) ==
    IF data.t = "list" THEN data.items
    ELSE IF FirstListKey(data) # 0 THEN data.val[WrapperKeys[FirstListKey(data)]].items
    ELSE <<data>>

\* C19 (as claimed): the rows save_data writes for a JSON payload that is
\* a list or an object are the row list described above.
C19_FlattenAsClaimed ==
    (/\ ipc = "returned"
     /\ rawWritable
     /\ pkg.type = "json"
     /\ pkg.data.t \in {"list", "dict"}) =>
        LET f == store[ReportOrder[idx]]
        IN f.present /\ f.rows = ClaimedRecords(pkg.data)

\* What holds of the flattening: the rows are as claimed unless the list
\* under the first wrapper key is empty, and then the one row is the
\* whole object.
FlattenExceptEmptyWrapped ==
    (/\ ipc = "returned"
     /\ rawWritable
     /\ pkg.type = "json"
     /\ pkg.data.t \in {"list", "dict"}) =>
        LET f == store[ReportOrder[idx]]
            k == FirstListKey(pkg.data)
        IN /\ f.present
           /\ f.rows = IF pkg.data.t = "dict" /\ k # 0
                          /\ pkg.data.val[WrapperKeys[k]].items = <<>>
                       THEN <<pkg.data>>
                       ELSE ClaimedRecords(pkg.data)

====
